---- MODULE Spec2Model ----
(***************************************************************************)
(* Model of update.py (watkins-matt/nvim-config): the Neovim AppImage      *)
(* updater.  One run of main() is a process that walks through the version *)
(* probe, the manifest fetch, the install decision, download_latest,       *)
(* extract_appimage and update_symlink.  The host filesystem (bundle file, *)
(* temporary file, extraction directory, entry-point link, legacy link)    *)
(* persists between runs; the manifest cache and the locals do not.        *)
(***************************************************************************)
EXTENDS Integers, Sequences, FiniteSets, TLC

(* ---------------------------- bounds ----------------------------------- *)
MaxRuns == 2          \* runs of main() that are started
MaxPublish == 1       \* upstream release changes during the exploration
MaxOrphans == 1       \* temporary files an interrupted run may leave behind
MaxFetches == 3       \* fetch_latest_release calls of the cache driver
MaxTicks == 2         \* clock advances inside one run

(* ------------------------ program constants ---------------------------- *)
MIN_APPIMAGE_SIZE == 10 * 1024 * 1024
CACHE_DURATION == 3600
VersionPrefix == "v"
NvimBanner == <<"N", "V", "I", "M", " ", "v">>

(* seconds that pass in one clock advance *)
TickStep == 3600

None == "None"
NoVersion == <<"None">>
NoFile == [kind |-> "nofile"]
NoDir == [kind |-> "nodir"]
NoEntry == [kind |-> "noentry"]

(* ---------------------- upstream releases ------------------------------ *)
(* A release: the manifest's tag_name, the version the bundle's launcher   *)
(* prints after "NVIM v", and the size of its AppImage asset (0: the       *)
(* manifest gives no usable size).                                         *)
RelIds == {"r1", "r2", "r3"}
(* a manifest answered with status 200 that lacks a field from_dict reads *)
Malformed == "malformed"

TagName(r) ==
    CASE r = "r1" -> <<"v", "1">>
      [] r = "r2" -> <<"v", "2">>
      [] r = "r3" -> <<"2">>

LauncherVersion(r) ==
    CASE r = "r1" -> <<"1">>
      [] r = "r2" -> <<"2">>
      [] r = "r3" -> <<"2">>

AssetSize(r) ==
    CASE r = "r1" -> 15000000
      [] r = "r2" -> 10485760
      [] r = "r3" -> 0

(* length of the artifact the release really consists of *)
RealSize(r) ==
    CASE r = "r1" -> 15000000
      [] r = "r2" -> 10485760
      [] r = "r3" -> 15000000

(* body lengths a download may deliver, and the sizes at which a partly   *)
(* written temporary file is observed                                       *)
ServedSizes == {5000000, 10485760, 15000000}

(* ----------------------------- strings --------------------------------- *)
(* lstrip that strips nothing *)
lstrip_Keep(s, c) == s

RECURSIVE lstrip(_, _)
lstrip(s, c) ==
    IF s = <<>> THEN s
    ELSE IF Head(s) = c THEN lstrip(Tail(s), c) ELSE s

StartsWith(s, p) ==
    /\ Len(s) >= Len(p)
    /\ SubSeq(s, 1, Len(p)) = p

RECURSIVE FirstWord(_)
FirstWord(s) ==
    IF s = <<>> THEN <<>>
    ELSE IF Head(s) = " " THEN <<>> ELSE <<Head(s)>> \o FirstWord(Tail(s))

(* first_line.split("NVIM v")[1].split()[0]; an empty remainder raises and *)
(* is caught, giving None                                                   *)
ParseVersionLine(line) ==
    IF StartsWith(line, NvimBanner)
    THEN LET rest == lstrip(SubSeq(line, Len(NvimBanner) + 1, Len(line)), " ")
         IN IF FirstWord(rest) = <<>> THEN NoVersion ELSE FirstWord(rest)
    ELSE NoVersion

(* --------------------------- state ------------------------------------- *)
VARIABLES
    pc,              \* position of the running main(), "idle" when none runs
    runs,            \* runs started so far
    upstream,        \* release the manifest endpoint currently serves
    publishes,       \* upstream changes so far
    bundle,          \* file at nvim_dir/nvim.appimage
    temp,            \* the running download_latest's temporary file
    orphans,         \* temporary files left in nvim_dir by killed runs
    extract,         \* directory nvim_dir/squashfs-root
    symlink,         \* what is at symlink_path
    otherExists,     \* whether the path a foreign link points to exists
    legacy,          \* whether nvim_dir/nvim is a symbolic link
    api_cache,       \* ReleaseManager._api_cache[GITHUB_API_URL]
    now,             \* seconds since the process started
    current_version, \* main's current_version
    latest_release,  \* main's latest_release
    mgr_release,     \* download_latest's self.latest_release
    served,          \* body length of the artifact response
    symlink_updated, \* update_symlink's flag
    refreshed,       \* refresh_shell_cache calls in this run
    manifestGets,    \* manifest requests sent in this run
    artifactGets,    \* artifact requests sent in this run
    dlResult,        \* how download_latest ended in this run
    downloaded,      \* the complete file this run's download wrote
    decision,        \* branch main took in this run
    envFault,        \* an environment fault was injected in this run
    entry,           \* filesystem as download_and_install found it
    symEntry,        \* filesystem as update_symlink found it
    prev,            \* summary of the previous run
    installs,        \* consecutive runs that ended after a successful download
    startPubs,       \* value of publishes when this run started
    symResult,       \* how update_symlink ended in this run
    scripts,         \* contents of the target scripts
    entryScripts,    \* their contents when check_and_update was called
    tmpScript,       \* contents of <tmp>/update_new.py
    helperFile,      \* the target named in <tmp>/replace_update.sh, 0: no file
    helper,          \* the helper process: none, sleeping, done
    su_pc,           \* position in check_and_update
    su_i,            \* index of the loop over target_scripts
    suVisited,       \* the targets whose check was begun
    suFailed,        \* the targets for which an error was logged
    suFaults,        \* faults injected into this call
    new_content,     \* response.text
    assets,          \* the assets handed to find_appimage_asset
    target,          \* the architecture asked for
    found,           \* what find_appimage_asset returned: list index, score
    probeName,       \* the name handed to detect_from_name
    detected,        \* what detect_from_name returned
    fetchLog,        \* the fetch_latest_release calls of a process so far
    vFile,           \* the file at the path handed to validate_appimage
    vExpected,       \* the expected_size handed to it
    vResult          \* what validate_appimage returned

mainVars == <<pc, runs, upstream, publishes, bundle, temp, orphans, extract,
          symlink, otherExists, legacy, api_cache, now, current_version,
          latest_release, mgr_release, served, symlink_updated, refreshed,
          manifestGets, artifactGets, dlResult, downloaded, decision, envFault, entry,
          symEntry, prev, installs, startPubs, symResult>>

(* state of the drivers of the cache, the asset matcher and the            *)
(* self-updater, which the run of main leaves alone                         *)
cacheAux == <<fetchLog>>
matcherAux == <<assets, target, found, probeName, detected>>
selfAux == <<scripts, entryScripts, tmpScript, helperFile, helper, su_pc,
             su_i, suVisited, suFailed, suFaults, new_content>>
validateAux == <<vFile, vExpected, vResult>>
notCacheAux == <<matcherAux, selfAux, validateAux>>
auxVars == <<cacheAux, matcherAux, selfAux, validateAux>>

vars == <<mainVars, auxVars>>

fsVars == <<bundle, temp, orphans, extract, symlink, otherExists, legacy>>
netVars == <<manifestGets, artifactGets>>
histVars == <<entry, symEntry, prev, installs, startPubs>>

(* --------------------------- filesystem -------------------------------- *)
File(r, n, b, x) == [kind |-> "file", rel |-> r, size |-> n, body |-> b, exec |-> x]
Dir(r, s) == [kind |-> "dir", rel |-> r, st |-> s]
Link(t) == [kind |-> "link", target |-> t]
Absent == [kind |-> "absent", target |-> "none"]
RegularFile == [kind |-> "file", target |-> "none"]

ExtractStates == {"full", "partialRun", "partialBroken", "partialNoRun"}

(* os.path.exists(apprun_path) *)
LauncherExists(d) == d.kind = "dir" /\ d.st \in {"full", "partialRun", "partialBroken"}
(* the launcher starts and prints its version banner *)
LauncherWorks(d) == d.kind = "dir" /\ d.st \in {"full", "partialRun"}

(* os.path.islink / os.readlink / os.path.exists / os.path.lexists on      *)
(* symlink_path                                                             *)
IsLink(s) == s.kind = "link"
ReadLink(s) == s.target
PathExists(s, d, oe) ==
    CASE s.kind = "absent" -> FALSE
      [] s.kind = "file" -> TRUE
      [] s.kind = "link" -> IF s.target = "apprun" THEN LauncherExists(d) ELSE oe
LExists(s) == s.kind # "absent"

TempCount == orphans + (IF temp = NoFile THEN 0 ELSE 1)

FsSnapshot == [bundle |-> bundle, extract |-> extract, symlink |-> symlink,
               legacy |-> legacy, temps |-> TempCount]

(* the summary of the run before, when there was none *)
NoRun == [how |-> "none", decision |-> "none", ok |-> FALSE, pubs |-> 0,
          extFailed |-> FALSE]

(* no fetch_latest_release call was made yet *)
NoCalls == [n |-> 0, kind |-> "none", ret |-> None, bornAt |-> -1, bornData |-> None]

(* the drivers' state while main runs *)
CacheIdle == fetchLog = NoCalls

(* find_appimage_asset and detect_from_name were not called yet *)
NotCalled == [idx |-> -1, score |-> -1]
NotDetected == "NotCalled"
MatcherIdle ==
    /\ assets = <<>>
    /\ target = "X86_64"
    /\ found = NotCalled
    /\ probeName = <<>>
    /\ detected = NotDetected

(* SelfUpdater.target_scripts by default: INSTALL_PATH and the copy in    *)
(* ~/.config/nvim                                                           *)
NTargets == 2
Targets == 1..NTargets

(* check_and_update was not called *)
SelfIdle ==
    /\ scripts = [i \in Targets |-> "new"]
    /\ entryScripts = scripts
    /\ tmpScript = "none"
    /\ helperFile = 0
    /\ helper = "none"
    /\ su_pc = "idle"
    /\ su_i = 0
    /\ suVisited = {}
    /\ suFailed = {}
    /\ suFaults = 0
    /\ new_content = "none"

(* expected_size when the caller gives none *)
NoSize == -1

(* validate_appimage was not called *)
ValidateIdle ==
    /\ vFile = NoFile
    /\ vExpected = NoSize
    /\ vResult = "none"

AuxIdle ==
    /\ CacheIdle
    /\ MatcherIdle
    /\ SelfIdle
    /\ ValidateIdle

(* --------------------------- Init -------------------------------------- *)
(* Either nothing is installed, or release r1 was installed by an earlier  *)
(* run.  The entry-point link may be absent, current, foreign (to a path   *)
(* that exists or not) or a regular file; a legacy link may be present.    *)
InitInstalled ==
    /\ bundle = File("r1", 15000000, 15000000, TRUE)
    /\ extract = Dir("r1", "full")

InitFresh ==
    /\ bundle = NoFile
    /\ extract = NoDir

Init ==
    /\ pc = "idle"
    /\ runs = 0
    /\ upstream \in RelIds
    /\ publishes = 0
    /\ InitInstalled \/ InitFresh
    /\ temp = NoFile
    /\ orphans = 0
    /\ symlink \in {Absent, Link("apprun"), Link("other"), RegularFile}
    /\ otherExists \in BOOLEAN
    /\ (symlink # Link("other") => otherExists = FALSE)
    /\ legacy \in BOOLEAN
    /\ api_cache = NoEntry
    /\ now = 0
    /\ current_version = NoVersion
    /\ latest_release = None
    /\ mgr_release = None
    /\ served = 0
    /\ symlink_updated = FALSE
    /\ refreshed = 0
    /\ manifestGets = 0
    /\ artifactGets = 0
    /\ dlResult = "none"
    /\ downloaded = NoFile
    /\ decision = "none"
    /\ envFault = FALSE
    /\ entry = FsSnapshot
    /\ symEntry = FsSnapshot
    /\ prev = NoRun
    /\ installs = 0
    /\ startPubs = 0
    /\ symResult = "none"
    /\ AuxIdle

(* ------------------------- environment --------------------------------- *)
(* Upstream publishes another release.  The manifest is read only by the   *)
(* two fetches of a run, so a change is observed before the run or before  *)
(* the fetch in download_latest.                                            *)
Publish ==
    /\ pc \in {"idle", "dl_fetch"}
    /\ publishes < MaxPublish
    /\ \E r \in RelIds \ {upstream} : upstream' = r
    /\ publishes' = publishes + 1
    /\ UNCHANGED <<pc, runs, fsVars, api_cache, now, current_version,
                   latest_release, mgr_release, served, symlink_updated,
                   refreshed, netVars, dlResult, downloaded, decision,
                   envFault, histVars, symResult>>
    /\ UNCHANGED auxVars

(* Time passes.  The clock is read only by the cache lookup, and the only  *)
(* lookup that can find an entry is the one in download_latest, so time    *)
(* advances are observed there.                                             *)
Tick ==
    /\ pc = "dl_fetch"
    /\ now < MaxTicks * TickStep
    /\ now' = now + TickStep
    /\ UNCHANGED <<pc, runs, upstream, publishes, fsVars, api_cache,
                   current_version, latest_release, mgr_release, served,
                   symlink_updated, refreshed, netVars, dlResult, downloaded,
                   decision, envFault, histVars, symResult>>
    /\ UNCHANGED auxVars

(* the process is gone: its cache, clock and locals with it *)
ProcessGone ==
    /\ api_cache' = NoEntry
    /\ now' = 0
    /\ current_version' = NoVersion
    /\ latest_release' = None
    /\ mgr_release' = None
    /\ served' = 0
    /\ symlink_updated' = FALSE
    /\ refreshed' = 0
    /\ manifestGets' = 0
    /\ artifactGets' = 0
    /\ dlResult' = "none"
    /\ downloaded' = NoFile
    /\ decision' = "none"
    /\ envFault' = FALSE
    /\ symResult' = "none"

(* the extraction of this run's download ended with an error status:      *)
(* extract_appimage has returned and squashfs-root is incomplete           *)
ExtractionFailed ==
    /\ decision = "install"
    /\ dlResult = "true"
    /\ pc \in {"sym_legacy", "sym_check", "sym_create", "sym_refresh",
               "done", "ended", "crashed"}
    /\ extract # NoDir
    /\ extract.st # "full"

RunSummary(how) ==
    [how |-> how, decision |-> decision,
     ok |-> (dlResult = "true" /\ ~envFault),
     pubs |-> startPubs,
     extFailed |-> ExtractionFailed]

(* the process is killed (signal, power loss); an open temporary file      *)
(* stays in nvim_dir under its random name                                  *)
Interrupt ==
    /\ pc \notin {"idle", "done", "ended", "crashed"}
    /\ temp # NoFile => orphans < MaxOrphans
    /\ pc' = "idle"
    /\ orphans' = IF temp # NoFile THEN orphans + 1 ELSE orphans
    /\ temp' = NoFile
    /\ prev' = RunSummary("interrupted")
    /\ installs' = 0
    /\ ProcessGone
    /\ UNCHANGED <<runs, upstream, publishes, bundle, extract, symlink,
                   otherExists, legacy, startPubs>>
    /\ entry' = FsSnapshot'
    /\ symEntry' = FsSnapshot'
    /\ UNCHANGED auxVars

(* ------------------------------ main ----------------------------------- *)
(* a new process: empty class-level cache, fresh locals *)
Start ==
    /\ pc = "idle"
    /\ runs < MaxRuns
    /\ runs' = runs + 1
    /\ pc' = "probe"
    /\ startPubs' = publishes
    /\ UNCHANGED <<upstream, publishes, fsVars, api_cache, now,
                   current_version, latest_release, mgr_release, served,
                   symlink_updated, refreshed, netVars, dlResult, downloaded,
                   decision, envFault, entry, symEntry, prev, installs,
                   symResult>>
    /\ UNCHANGED auxVars

(* NvimUpdater.get_installed_version: run the launcher, parse line one *)
get_installed_version(d) ==
    IF LauncherWorks(d)
    THEN ParseVersionLine(NvimBanner \o LauncherVersion(d.rel))
    ELSE NoVersion

Probe ==
    /\ pc = "probe"
    /\ current_version' = get_installed_version(extract)
    /\ pc' = "fetch"
    /\ UNCHANGED <<runs, upstream, publishes, fsVars, api_cache, now,
                   latest_release, mgr_release, served, symlink_updated,
                   refreshed, netVars, dlResult, downloaded, decision,
                   envFault, histVars, symResult>>
    /\ UNCHANGED auxVars

(* an entry that never expires *)
CacheFresh_NoTTL == api_cache # NoEntry

(* ReleaseManager._get_cached_response finds a live entry *)
CacheFresh ==
    /\ api_cache # NoEntry
    /\ ~(now - api_cache.ts > CACHE_DURATION)

(* a fetch that never looks into the cache *)
fetch_latest_release_NoCache(rel) ==
    /\ rel = upstream
    /\ api_cache' = [kind |-> "entry", ts |-> now, data |-> upstream]
    /\ manifestGets' = manifestGets + 1
    /\ UNCHANGED envFault

(* ReleaseManager.fetch_latest_release returning release rel *)
fetch_latest_release(rel) ==
    \/ /\ CacheFresh
       /\ rel = api_cache.data
       /\ UNCHANGED <<api_cache, manifestGets, envFault>>
    \/ /\ ~CacheFresh
       /\ rel = upstream
       /\ api_cache' = [kind |-> "entry", ts |-> now, data |-> upstream]
       /\ manifestGets' = manifestGets + 1
       /\ UNCHANGED envFault

(* a fetch that stores the answer before it looks at the status *)
fetch_latest_release_raises_Stores ==
    /\ ~CacheFresh
    /\ api_cache' = [kind |-> "entry", ts |-> now, data |-> upstream]
    /\ manifestGets' = manifestGets + 1
    /\ envFault' = TRUE

(* ReleaseManager.fetch_latest_release raising on a non-200 answer: the    *)
(* lookup before the request has deleted an expired entry                  *)
fetch_latest_release_raises ==
    /\ ~CacheFresh
    /\ api_cache' = NoEntry
    /\ manifestGets' = manifestGets + 1
    /\ envFault' = TRUE

(* ReleaseManager.fetch_latest_release when ReleaseInfo.from_dict raises   *)
(* KeyError: on a miss the payload is already in the cache                 *)
fetch_latest_release_KeyError ==
    /\ \/ /\ CacheFresh
          /\ api_cache.data = Malformed
          /\ UNCHANGED <<api_cache, manifestGets>>
       \/ /\ ~CacheFresh
          /\ upstream = Malformed
          /\ api_cache' = [kind |-> "entry", ts |-> now, data |-> upstream]
          /\ manifestGets' = manifestGets + 1
    /\ envFault' = TRUE

MainFetch ==
    /\ pc = "fetch"
    /\ \E rel \in RelIds :
          /\ fetch_latest_release(rel)
          /\ latest_release' = rel
    /\ pc' = "decide"
    /\ UNCHANGED <<runs, upstream, publishes, fsVars, now, current_version,
                   mgr_release, served, symlink_updated, refreshed,
                   artifactGets, dlResult, downloaded, decision, histVars,
                   symResult>>
    /\ UNCHANGED auxVars

MainFetchRaises ==
    /\ pc = "fetch"
    /\ fetch_latest_release_raises
    /\ pc' = "crashed"
    /\ UNCHANGED <<runs, upstream, publishes, fsVars, now, current_version,
                   latest_release, mgr_release, served, symlink_updated,
                   refreshed, artifactGets, dlResult, downloaded, decision,
                   histVars, symResult>>
    /\ UNCHANGED auxVars

(* NvimUpdater.is_installed_correctly *)
is_installed_correctly(d) == LauncherExists(d)

(* the condition without the comparison of the versions *)
NeedsInstall_NoCompare(cur, rel, d) ==
    \/ cur = NoVersion
    \/ ~is_installed_correctly(d)

(* the condition of main's if *)
NeedsInstall(cur, rel, d) ==
    \/ cur = NoVersion
    \/ lstrip(cur, VersionPrefix) # lstrip(TagName(rel), VersionPrefix)
    \/ ~is_installed_correctly(d)

Decide ==
    /\ pc = "decide"
    /\ IF NeedsInstall(current_version, latest_release, extract)
       THEN /\ decision' = "install"
            /\ pc' = "dl_fetch"
            /\ entry' = FsSnapshot
            /\ UNCHANGED <<symEntry, symlink_updated>>
       ELSE /\ decision' = "symlink_only"
            /\ pc' = "sym_legacy"
            /\ symEntry' = FsSnapshot
            /\ symlink_updated' = FALSE
            /\ UNCHANGED entry
    /\ UNCHANGED <<runs, upstream, publishes, fsVars, api_cache, now,
                   current_version, latest_release, mgr_release, served,
                   refreshed, netVars, dlResult, downloaded, envFault, prev,
                   installs, startPubs, symResult>>
    /\ UNCHANGED auxVars

(* ----------------------- ReleaseManager -------------------------------- *)
(* validation without the minimum size *)
validate_appimage_NoFloor(f, expected) ==
    IF f = NoFile THEN FALSE
    ELSE IF expected # NoSize /\ expected # 0 /\ f.size # expected THEN FALSE
    ELSE IF ~f.exec THEN FALSE
    ELSE TRUE

(* ReleaseManager.validate_appimage; "if expected_size and ..." compares   *)
(* only when expected_size is neither None nor 0                            *)
validate_appimage(f, expected) ==
    IF f = NoFile THEN FALSE
    ELSE IF f.size < MIN_APPIMAGE_SIZE THEN FALSE
    ELSE IF expected # NoSize /\ expected # 0 /\ f.size # expected THEN FALSE
    ELSE IF ~f.exec THEN FALSE
    ELSE TRUE

dlFrame == <<runs, upstream, publishes, current_version, latest_release,
             symlink_updated, refreshed, decision, entry, symEntry, prev,
             installs, startPubs, symResult, otherExists, legacy, symlink,
             orphans>>

(* download_latest up to the temporary file: a new ReleaseManager has no   *)
(* latest_release and asks fetch_latest_release                            *)
DlFetch ==
    /\ pc = "dl_fetch"
    /\ \E rel \in RelIds :
          /\ fetch_latest_release(rel)
          /\ mgr_release' = rel
    /\ pc' = "dl_open"
    /\ UNCHANGED <<dlFrame, bundle, temp, extract, now, served, artifactGets,
                   dlResult, downloaded>>
    /\ UNCHANGED auxVars

DlFetchRaises ==
    /\ pc = "dl_fetch"
    /\ fetch_latest_release_raises
    /\ dlResult' = "raised"
    /\ pc' = "crashed"
    /\ UNCHANGED <<dlFrame, bundle, temp, extract, now, mgr_release, served,
                   artifactGets, downloaded>>
    /\ UNCHANGED auxVars

(* tempfile.NamedTemporaryFile(dir=target_dir, delete=False) *)
DlOpen ==
    /\ pc = "dl_open"
    /\ temp' = File(mgr_release, 0, 0, FALSE)
    /\ pc' = "dl_get"
    /\ UNCHANGED <<dlFrame, bundle, extract, api_cache, now, mgr_release,
                   served, netVars, dlResult, downloaded, envFault>>
    /\ UNCHANGED auxVars

(* requests.get(download_url, stream=True); raise_for_status() *)
DlGet ==
    /\ pc = "dl_get"
    /\ \E n \in ServedSizes :
          /\ served' = n
          /\ temp' = [temp EXCEPT !.body = n]
          /\ envFault' = (envFault \/ n # RealSize(mgr_release))
    /\ artifactGets' = artifactGets + 1
    /\ pc' = "dl_write"
    /\ UNCHANGED <<dlFrame, bundle, extract, api_cache, now, mgr_release,
                   manifestGets, dlResult, downloaded>>
    /\ UNCHANGED auxVars

(* transport error or HTTP error status *)
DlGetRaises ==
    /\ pc = "dl_get"
    /\ artifactGets' = artifactGets + 1
    /\ envFault' = TRUE
    /\ pc' = "dl_except"
    /\ UNCHANGED <<dlFrame, bundle, temp, extract, api_cache, now,
                   mgr_release, served, manifestGets, dlResult, downloaded>>
    /\ UNCHANGED auxVars

NextSize(n) == CHOOSE s \in ServedSizes :
                   /\ s > n
                   /\ \A t \in ServedSizes : t > n => s <= t

(* temp_file.write(chunk), seen at the sizes of ServedSizes *)
DlWrite ==
    /\ pc = "dl_write"
    /\ temp.size < served
    /\ temp' = [temp EXCEPT !.size = NextSize(temp.size)]
    /\ UNCHANGED <<pc, dlFrame, bundle, extract, api_cache, now, mgr_release,
                   served, netVars, dlResult, downloaded, envFault>>
    /\ UNCHANGED auxVars

(* a write fails (disk full, connection reset while streaming) *)
DlWriteRaises ==
    /\ pc = "dl_write"
    /\ temp.size < served
    /\ envFault' = TRUE
    /\ pc' = "dl_except"
    /\ UNCHANGED <<dlFrame, bundle, temp, extract, api_cache, now,
                   mgr_release, served, netVars, dlResult, downloaded>>
    /\ UNCHANGED auxVars

(* temp_file.flush(); os.chmod(temp_file.name, 0o755) *)
DlChmod ==
    /\ pc = "dl_write"
    /\ temp.size = served
    /\ temp' = [temp EXCEPT !.exec = TRUE]
    /\ downloaded' = [temp EXCEPT !.exec = TRUE]
    /\ pc' = "dl_validate"
    /\ UNCHANGED <<dlFrame, bundle, extract, api_cache, now, mgr_release,
                   served, netVars, dlResult, envFault>>
    /\ UNCHANGED auxVars

(* the move is made whatever validate_appimage answers *)
DlValidate_Skip ==
    /\ pc = "dl_validate"
    /\ pc' = "dl_move"
    /\ UNCHANGED <<dlFrame, bundle, temp, extract, api_cache, now,
                   mgr_release, served, netVars, dlResult, downloaded,
                   envFault>>
    /\ UNCHANGED auxVars

(* validate_appimage on the temporary file; on failure unlink and return   *)
(* False, and download_and_install returns False to main                   *)
DlValidate ==
    /\ pc = "dl_validate"
    /\ IF validate_appimage(temp, AssetSize(mgr_release))
       THEN /\ pc' = "dl_move"
            /\ UNCHANGED <<temp, dlResult>>
       ELSE /\ temp' = NoFile
            /\ dlResult' = "false"
            /\ pc' = "done"
    /\ UNCHANGED <<dlFrame, bundle, extract, api_cache, now, mgr_release,
                   served, netVars, downloaded, envFault>>
    /\ UNCHANGED auxVars

(* shutil.move(temp_file.name, final_path): a rename inside nvim_dir *)
DlMove ==
    /\ pc = "dl_move"
    /\ bundle' = temp
    /\ temp' = NoFile
    /\ dlResult' = "true"
    /\ pc' = "ext_rm"
    /\ UNCHANGED <<dlFrame, extract, api_cache, now, mgr_release, served,
                   netVars, downloaded, envFault>>
    /\ UNCHANGED auxVars

(* the rename fails; the target is untouched *)
DlMoveRaises ==
    /\ pc = "dl_move"
    /\ envFault' = TRUE
    /\ pc' = "dl_except"
    /\ UNCHANGED <<dlFrame, bundle, temp, extract, api_cache, now,
                   mgr_release, served, netVars, dlResult, downloaded>>
    /\ UNCHANGED auxVars

(* the handler returns False and leaves the temporary file *)
DlExcept_Leak ==
    /\ pc = "dl_except"
    /\ dlResult' = "false"
    /\ pc' = "done"
    /\ UNCHANGED <<dlFrame, bundle, temp, extract, api_cache, now,
                   mgr_release, served, netVars, downloaded, envFault>>
    /\ UNCHANGED auxVars

(* except Exception: unlink the temporary file if it exists, return False *)
DlExcept ==
    /\ pc = "dl_except"
    /\ temp' = NoFile
    /\ dlResult' = "false"
    /\ pc' = "done"
    /\ UNCHANGED <<dlFrame, bundle, extract, api_cache, now, mgr_release,
                   served, netVars, downloaded, envFault>>
    /\ UNCHANGED auxVars

(* ------------------------- NvimUpdater --------------------------------- *)
instFrame == <<runs, upstream, publishes, api_cache, now, current_version,
               latest_release, mgr_release, served, netVars, dlResult,
               downloaded, decision, entry, prev, installs, startPubs,
               symResult, bundle, temp, orphans, otherExists>>

(* extract_appimage: shutil.rmtree of an existing extraction directory *)
ExtRm ==
    /\ pc = "ext_rm"
    /\ extract' = NoDir
    /\ pc' = "ext_call"
    /\ UNCHANGED <<instFrame, symlink, legacy, symlink_updated, refreshed,
                   symEntry, envFault>>
    /\ UNCHANGED auxVars

(* call([appimage_path, "--appimage-extract"]): the bundle starts writing  *)
(* squashfs-root                                                            *)
ExtBegin ==
    /\ pc = "ext_call"
    /\ extract' = Dir(bundle.rel, "partialNoRun")
    /\ pc' = "ext_wait"
    /\ UNCHANGED <<instFrame, symlink, legacy, symlink_updated, refreshed,
                   symEntry, envFault>>
    /\ UNCHANGED auxVars

(* the bundle cannot be started: call raises OSError out of main *)
ExtRaises ==
    /\ pc = "ext_call"
    /\ envFault' = TRUE
    /\ pc' = "crashed"
    /\ UNCHANGED <<instFrame, extract, symlink, legacy, symlink_updated,
                   refreshed, symEntry>>
    /\ UNCHANGED auxVars

(* the launcher file appears before the extraction is complete *)
ExtProgress ==
    /\ pc = "ext_wait"
    /\ extract.st = "partialNoRun"
    /\ \E s \in {"partialRun", "partialBroken"} : extract' = Dir(extract.rel, s)
    /\ UNCHANGED <<pc, instFrame, symlink, legacy, symlink_updated, refreshed,
                   symEntry, envFault>>
    /\ UNCHANGED auxVars

(* extraction completes; update_symlink is entered *)
ExtFinish ==
    /\ pc = "ext_wait"
    /\ extract' = Dir(extract.rel, "full")
    /\ symlink_updated' = FALSE
    /\ symEntry' = [FsSnapshot EXCEPT !.extract = extract']
    /\ pc' = "sym_legacy"
    /\ UNCHANGED <<instFrame, symlink, legacy, refreshed, envFault>>
    /\ UNCHANGED auxVars

(* extraction stops with an error status, which call's caller ignores;     *)
(* update_symlink is entered all the same                                  *)
ExtFails ==
    /\ pc = "ext_wait"
    /\ envFault' = TRUE
    /\ symlink_updated' = FALSE
    /\ symEntry' = FsSnapshot
    /\ pc' = "sym_legacy"
    /\ UNCHANGED <<instFrame, extract, symlink, legacy, refreshed>>
    /\ UNCHANGED auxVars

symFrame == <<runs, upstream, publishes, api_cache, now, current_version,
              latest_release, mgr_release, served, netVars, dlResult,
              downloaded, decision, envFault, entry, symEntry, prev, installs,
              startPubs, bundle, temp, orphans, extract, otherExists>>

(* update_symlink: remove the legacy link nvim_dir/nvim *)
SymLegacy ==
    /\ pc = "sym_legacy"
    /\ IF legacy
       THEN legacy' = FALSE /\ symlink_updated' = TRUE
       ELSE UNCHANGED <<legacy, symlink_updated>>
    /\ pc' = "sym_check"
    /\ UNCHANGED <<symFrame, symlink, refreshed, symResult>>
    /\ UNCHANGED auxVars

(* update_symlink: the test of the link and os.remove of what exists *)
SymCheck ==
    /\ pc = "sym_check"
    /\ IF ~IsLink(symlink) \/ ReadLink(symlink) # "apprun"
       THEN /\ symlink' = IF PathExists(symlink, extract, otherExists)
                          THEN Absent ELSE symlink
            /\ pc' = "sym_create"
       ELSE /\ pc' = "sym_refresh"
            /\ UNCHANGED symlink
    /\ UNCHANGED <<symFrame, legacy, symlink_updated, refreshed, symResult>>
    /\ UNCHANGED auxVars

(* update_symlink: os.symlink(apprun_path, symlink_path), which raises     *)
(* FileExistsError out of main when the path is still occupied             *)
SymCreate ==
    /\ pc = "sym_create"
    /\ IF LExists(symlink)
       THEN /\ pc' = "crashed"
            /\ symResult' = "raised"
            /\ UNCHANGED <<symlink, symlink_updated>>
       ELSE /\ symlink' = Link("apprun")
            /\ symlink_updated' = TRUE
            /\ pc' = "sym_refresh"
            /\ UNCHANGED symResult
    /\ UNCHANGED <<symFrame, legacy, refreshed>>
    /\ UNCHANGED auxVars

(* the shell cache is refreshed on every call *)
SymRefresh_Always ==
    /\ pc = "sym_refresh"
    /\ refreshed' = refreshed + 1
    /\ symResult' = "returned"
    /\ pc' = "done"
    /\ UNCHANGED <<symFrame, symlink, legacy, symlink_updated>>
    /\ UNCHANGED auxVars

(* update_symlink: refresh_shell_cache when something was changed *)
SymRefresh ==
    /\ pc = "sym_refresh"
    /\ refreshed' = IF symlink_updated THEN refreshed + 1 ELSE refreshed
    /\ symResult' = "returned"
    /\ pc' = "done"
    /\ UNCHANGED <<symFrame, symlink, legacy, symlink_updated>>
    /\ UNCHANGED auxVars

(* the rest of main: configuration, scheduler, alias, and                  *)
(* SelfUpdater().check_and_update(); main returns                          *)
RestOfMain ==
    /\ pc = "done"
    /\ pc' = "ended"
    /\ UNCHANGED <<runs, upstream, publishes, fsVars, api_cache, now,
                   current_version, latest_release, mgr_release, served,
                   symlink_updated, refreshed, netVars, dlResult, downloaded,
                   decision, envFault, histVars, symResult>>
    /\ UNCHANGED auxVars

(* the exit status of the process: main returned, or an exception left it *)
ExitCode == IF pc = "ended" THEN 0 ELSE 1

(* the end of the process, by return or by an uncaught exception *)
Exit ==
    /\ pc \in {"ended", "crashed"}
    /\ pc' = "idle"
    /\ prev' = RunSummary(IF pc = "ended" THEN "exited" ELSE "crashed")
    /\ installs' = IF decision = "install" /\ dlResult = "true" /\ ~envFault
                   THEN installs + 1 ELSE 0
    /\ ProcessGone
    /\ entry' = FsSnapshot
    /\ symEntry' = FsSnapshot
    /\ UNCHANGED <<runs, upstream, publishes, fsVars, startPubs>>
    /\ UNCHANGED auxVars

Next ==
    \/ Publish
    \/ Tick
    \/ Interrupt
    \/ Start
    \/ Probe
    \/ MainFetch
    \/ MainFetchRaises
    \/ Decide
    \/ DlFetch
    \/ DlFetchRaises
    \/ DlOpen
    \/ DlGet
    \/ DlGetRaises
    \/ DlWrite
    \/ DlWriteRaises
    \/ DlChmod
    \/ DlValidate
    \/ DlMove
    \/ DlMoveRaises
    \/ DlExcept
    \/ ExtRm
    \/ ExtBegin
    \/ ExtRaises
    \/ ExtProgress
    \/ ExtFinish
    \/ ExtFails
    \/ SymLegacy
    \/ SymCheck
    \/ SymCreate
    \/ SymRefresh
    \/ RestOfMain
    \/ Exit

Spec == Init /\ [][Next]_vars

TypeOK ==
    /\ runs \in 0..MaxRuns
    /\ orphans \in 0..MaxOrphans
    /\ symlink \in {Absent, RegularFile, Link("apprun"), Link("other")}
    /\ extract = NoDir \/ (extract.rel \in RelIds /\ extract.st \in ExtractStates)
    /\ temp = NoFile \/ temp.size <= temp.body

(* ===================== driver of the release cache ===================== *)
(* One process in which ReleaseManager instances call                      *)
(* fetch_latest_release again and again while time passes and upstream     *)
(* publishes.  fetchLog records each call and, apart from the cache, the   *)
(* time and the data of the last answer that came over the network.        *)
mainIdleVars == <<pc, runs, bundle, temp, orphans, extract, symlink,
                  otherExists, legacy, current_version, mgr_release, served,
                  symlink_updated, refreshed, artifactGets, dlResult,
                  downloaded, decision, entry, symEntry, prev, installs,
                  startPubs, symResult>>

MainIdle ==
    /\ pc = "idle"
    /\ runs = 0
    /\ InitFresh
    /\ temp = NoFile
    /\ orphans = 0
    /\ symlink = Absent
    /\ otherExists = FALSE
    /\ legacy = FALSE
    /\ current_version = NoVersion
    /\ mgr_release = None
    /\ served = 0
    /\ symlink_updated = FALSE
    /\ refreshed = 0
    /\ artifactGets = 0
    /\ dlResult = "none"
    /\ downloaded = NoFile
    /\ decision = "none"
    /\ entry = FsSnapshot
    /\ symEntry = FsSnapshot
    /\ prev = NoRun
    /\ installs = 0
    /\ startPubs = 0
    /\ symResult = "none"

CacheInit ==
    /\ MainIdle
    /\ upstream \in RelIds \cup {Malformed}
    /\ publishes = 0
    /\ api_cache = NoEntry
    /\ now = 0
    /\ latest_release = None
    /\ manifestGets = 0
    /\ envFault = FALSE
    /\ CacheIdle
    /\ MatcherIdle
    /\ SelfIdle
    /\ ValidateIdle

CacheTick ==
    /\ now < MaxTicks * TickStep
    /\ now' = now + (TickStep \div 2)
    /\ UNCHANGED <<mainIdleVars, upstream, publishes, api_cache,
                   latest_release, manifestGets, envFault, fetchLog>>
    /\ UNCHANGED notCacheAux

(* some ReleaseManager instance calls fetch_latest_release, which returns *)
CacheFetch ==
    /\ fetchLog.n < MaxFetches
    /\ \E rel \in RelIds :
          /\ fetch_latest_release(rel)
          /\ latest_release' = rel
          /\ fetchLog' =
                IF manifestGets' = manifestGets
                THEN [fetchLog EXCEPT !.n = @ + 1, !.kind = "hit", !.ret = rel]
                ELSE [n |-> fetchLog.n + 1, kind |-> "miss", ret |-> rel,
                      bornAt |-> now, bornData |-> upstream]
    /\ UNCHANGED <<mainIdleVars, upstream, publishes, now>>
    /\ UNCHANGED notCacheAux

(* the call raises on a non-200 answer *)
CacheFetchRaises ==
    /\ fetchLog.n < MaxFetches
    /\ fetch_latest_release_raises
    /\ fetchLog' = [fetchLog EXCEPT !.n = @ + 1, !.kind = "raise", !.ret = None]
    /\ UNCHANGED <<mainIdleVars, upstream, publishes, now, latest_release>>
    /\ UNCHANGED notCacheAux

(* the call raises KeyError on a manifest that does not parse *)
CacheFetchKeyError ==
    /\ fetchLog.n < MaxFetches
    /\ fetch_latest_release_KeyError
    /\ fetchLog' =
          IF manifestGets' = manifestGets
          THEN [fetchLog EXCEPT !.n = @ + 1, !.kind = "keyerror", !.ret = None]
          ELSE [n |-> fetchLog.n + 1, kind |-> "keyerror", ret |-> None,
                bornAt |-> -1, bornData |-> None]
    /\ UNCHANGED <<mainIdleVars, upstream, publishes, now, latest_release>>
    /\ UNCHANGED notCacheAux

CacheNext ==
    \/ Publish
    \/ CacheTick
    \/ CacheFetch
    \/ CacheFetchRaises
    \/ CacheFetchKeyError

CacheSpec == CacheInit /\ [][CacheNext]_vars

(* ================= driver of the asset matcher ========================== *)
(* Names are sequences of characters, so that str.lower, str.endswith,     *)
(* the in operator and the \b of the compiled patterns are computed.       *)
MaxPieces == 2        \* name pieces between stem and suffix
MaxAssets == 2        \* assets of a release

UpperChars == <<"A", "B", "C", "D", "E", "F", "G", "H", "I", "J", "K", "L", "M",
                "N", "O", "P", "Q", "R", "S", "T", "U", "V", "W", "X", "Y", "Z">>
LowerChars == <<"a", "b", "c", "d", "e", "f", "g", "h", "i", "j", "k", "l", "m",
                "n", "o", "p", "q", "r", "s", "t", "u", "v", "w", "x", "y", "z">>
Digits == {"0", "1", "2", "3", "4", "5", "6", "7", "8", "9"}

(* str.lower *)
LowerChar(c) ==
    IF \E i \in 1..26 : UpperChars[i] = c
    THEN LowerChars[CHOOSE i \in 1..26 : UpperChars[i] = c]
    ELSE c
lower(s) == [i \in 1..Len(s) |-> LowerChar(s[i])]

(* \w of the re module on these names *)
WordChar(c) ==
    \/ \E i \in 1..26 : c = UpperChars[i] \/ c = LowerChars[i]
    \/ c \in Digits
    \/ c = "_"

(* sub is at position i of s *)
At(sub, s, i) ==
    /\ i >= 1
    /\ i + Len(sub) - 1 <= Len(s)
    /\ SubSeq(s, i, i + Len(sub) - 1) = sub

(* the in operator and str.endswith *)
Contains(sub, s) == \E i \in 1..Len(s) : At(sub, s, i)
EndsWith(s, suf) == At(suf, s, Len(s) - Len(suf) + 1)

(* \b between positions k-1 and k of s *)
IsWordAt(s, k) == k \in 1..Len(s) /\ WordChar(s[k])
WordBoundary(s, k) == IsWordAt(s, k - 1) # IsWordAt(s, k)

(* pattern.search with the boundaries dropped *)
search_NoBoundary(tok, s) == Contains(tok, s)

(* re.compile(rf"\b{re.escape(pattern)}\b").search(s) *)
search(tok, s) ==
    \E i \in 1..Len(s) :
        /\ At(tok, s, i)
        /\ WordBoundary(s, i)
        /\ WordBoundary(s, i + Len(tok))

(* class Architecture, in enumeration order, and its matches *)
Architecture == <<"X86_64", "ARM64">>
matches(arch) ==
    IF arch = "X86_64"
    THEN {<<"x", "8", "6", "_", "6", "4">>, <<"a", "m", "d", "6", "4">>, <<"x", "8", "6", "-", "6", "4">>}
    ELSE {<<"a", "r", "m", "6", "4">>, <<"a", "a", "r", "c", "h", "6", "4">>, <<"a", "r", "m", "v", "8">>}

(* Architecture.detect_from_name *)
detect_from_name(name) ==
    LET name_lower == lower(name)
        hit(k) == \E tok \in matches(Architecture[k]) : search(tok, name_lower)
    IN  IF \E k \in 1..Len(Architecture) : hit(k)
        THEN Architecture[CHOOSE k \in 1..Len(Architecture) :
                             hit(k) /\ \A j \in 1..(k - 1) : ~hit(j)]
        ELSE None

AppImageSuffix == <<".", "a", "p", "p", "i", "m", "a", "g", "e">>
SideFileMark == <<".", "a", "p", "p", "i", "m", "a", "g", "e", ".">>
PlatformToken == <<"l", "i", "n", "u", "x">>
ArchBonus == 10
PlatformBonus == 5

(* a filter that does not look at the end of the name *)
Kept_AnySuffix(name) ==
    LET name_lower == lower(name)
    IN  /\ ~Contains(SideFileMark, name_lower)
        /\ detect_from_name(name_lower) # None

(* the loop body of find_appimage_asset: is the asset kept, and its score *)
Kept(name) ==
    LET name_lower == lower(name)
    IN  /\ EndsWith(name_lower, AppImageSuffix)
        /\ ~Contains(SideFileMark, name_lower)
        /\ detect_from_name(name_lower) # None

ScoreWith(name, arch, bonus) ==
    LET name_lower == lower(name)
    IN  (IF detect_from_name(name_lower) = arch THEN ArchBonus ELSE 0)
        + (IF Contains(PlatformToken, name_lower) THEN bonus ELSE 0)

(* a platform bonus that outweighs the architecture *)
Score_PlatformFirst(name, arch) == ScoreWith(name, arch, 3 * PlatformBonus)

Score(name, arch) == ScoreWith(name, arch, PlatformBonus)

(* a sort that puts the last of the equal scores first *)
SortedFirst_LastWins(kept, list, arch) ==
    CHOOSE i \in kept :
        /\ \A j \in kept : Score(list[j], arch) <= Score(list[i], arch)
        /\ \A j \in kept : j > i => Score(list[j], arch) < Score(list[i], arch)

(* sorted(appimage_assets, key=score, reverse=True)[0]: the sort is stable *)
(* also with reverse=True, so of the highest scores the first in the list  *)
(* comes first                                                              *)
SortedFirst(kept, list, arch) ==
    CHOOSE i \in kept :
        /\ \A j \in kept : Score(list[j], arch) <= Score(list[i], arch)
        /\ \A j \in kept : j < i => Score(list[j], arch) < Score(list[i], arch)

(* a matcher that returns only assets of the architecture asked for *)
find_appimage_asset_MatchOnly(list, arch) ==
    LET kept == {i \in 1..Len(list) :
                    Kept(list[i]) /\ detect_from_name(lower(list[i])) = arch}
    IN  IF kept = {}
        THEN [idx |-> 0, score |-> -1]
        ELSE LET best == SortedFirst(kept, list, arch)
             IN  [idx |-> best, score |-> Score(list[best], arch)]

(* ReleaseInfo.find_appimage_asset *)
find_appimage_asset(list, arch) ==
    LET kept == {i \in 1..Len(list) : Kept(list[i])}
    IN  IF kept = {}
        THEN [idx |-> 0, score |-> -1]
        ELSE LET best == SortedFirst(kept, list, arch)
             IN  [idx |-> best, score |-> Score(list[best], arch)]

(* names handed to detect_from_name: a stem, some pieces, a suffix *)
Stem == <<"n", "v", "i", "m">>
Pieces == {<<"-", "l", "i", "n", "u", "x">>,
           <<"-", "x", "8", "6", "_", "6", "4">>,
           <<"_", "x", "8", "6", "_", "6", "4">>,
           <<"-", "a", "m", "d", "6", "4">>,
           <<"-", "x", "8", "6", "-", "6", "4">>,
           <<"-", "a", "r", "m", "6", "4">>,
           <<"-", "a", "a", "r", "c", "h", "6", "4">>,
           <<"-", "a", "r", "m", "v", "8">>,
           <<"-", "a", "r", "m", "6", "4", "x">>,
           <<"-", "X", "8", "6", "_", "6", "4">>,
           <<"-", "A", "R", "M", "6", "4">>,
           <<"-", "i", "3", "8", "6">>,
           <<"-", "L", "i", "n", "u", "x">>}
Suffixes == {<<>>, AppImageSuffix}
RECURSIVE Join(_)
Join(ps) == IF ps = <<>> THEN <<>> ELSE Head(ps) \o Join(Tail(ps))
PieceSeqs == UNION {[1..n -> Pieces] : n \in 0..MaxPieces}
NameSpace == {Stem \o Join(ps) \o suf : ps \in PieceSeqs, suf \in Suffixes}

(* names of the assets of a release *)
AssetNames == {<<"n", "v", "i", "m", "-", "l", "i", "n", "u", "x", "-", "x", "8", "6", "_", "6", "4", ".", "a", "p", "p", "i", "m", "a", "g", "e">>,
               <<"n", "v", "i", "m", "-", "l", "i", "n", "u", "x", "-", "x", "8", "6", "_", "6", "4", ".", "a", "p", "p", "i", "m", "a", "g", "e", ".", "z", "s", "y", "n", "c">>,
               <<"n", "v", "i", "m", "-", "l", "i", "n", "u", "x", "-", "a", "r", "m", "6", "4", ".", "a", "p", "p", "i", "m", "a", "g", "e">>,
               <<"n", "v", "i", "m", "-", "x", "8", "6", "_", "6", "4", ".", "a", "p", "p", "i", "m", "a", "g", "e">>,
               <<"n", "v", "i", "m", "-", "a", "r", "m", "6", "4", ".", "a", "p", "p", "i", "m", "a", "g", "e">>,
               <<"n", "v", "i", "m", ".", "a", "p", "p", "i", "m", "a", "g", "e">>,
               <<"n", "v", "i", "m", "-", "l", "i", "n", "u", "x", "-", "x", "8", "6", "_", "6", "4", ".", "t", "a", "r", ".", "g", "z">>,
               <<"N", "v", "i", "m", "-", "L", "i", "n", "u", "x", "-", "A", "M", "D", "6", "4", ".", "A", "p", "p", "I", "m", "a", "g", "e">>,
               <<"n", "v", "i", "m", "-", "l", "i", "n", "u", "x", "6", "4", ".", "a", "p", "p", "i", "m", "a", "g", "e">>}
AssetLists == UNION {[1..n -> AssetNames] : n \in 0..MaxAssets}

netIdleVars == <<upstream, publishes, api_cache, now, latest_release,
                 manifestGets, envFault>>
NetIdle ==
    /\ upstream = "r1"
    /\ publishes = 0
    /\ api_cache = NoEntry
    /\ now = 0
    /\ latest_release = None
    /\ manifestGets = 0
    /\ envFault = FALSE

(* the arguments of one call: a name for detect_from_name, or a list and  *)
(* an architecture for find_appimage_asset                                  *)
MatcherInit ==
    /\ MainIdle
    /\ NetIdle
    /\ CacheIdle
    /\ SelfIdle
    /\ ValidateIdle
    /\ found = NotCalled
    /\ detected = NotDetected
    /\ \/ /\ probeName \in NameSpace
          /\ assets = <<>>
          /\ target = "X86_64"
       \/ /\ probeName = <<>>
          /\ assets \in AssetLists
          /\ target \in {"X86_64", "ARM64"}

(* Architecture.detect_from_name(name) *)
DetectName ==
    /\ probeName # <<>>
    /\ detected = NotDetected
    /\ detected' = detect_from_name(probeName)
    /\ UNCHANGED <<probeName, assets, target, found>>
    /\ UNCHANGED <<mainIdleVars, netIdleVars, cacheAux, selfAux, validateAux>>

(* release.find_appimage_asset(arch) *)
FindAsset ==
    /\ probeName = <<>>
    /\ found = NotCalled
    /\ found' = find_appimage_asset(assets, target)
    /\ UNCHANGED <<probeName, assets, target, detected>>
    /\ UNCHANGED <<mainIdleVars, netIdleVars, cacheAux, selfAux, validateAux>>

MatcherNext ==
    \/ DetectName
    \/ FindAsset

MatcherSpec == MatcherInit /\ [][MatcherNext]_vars

(* ===================== driver of the self-updater ====================== *)
(* One call of SelfUpdater().check_and_update() on the default targets.    *)
(* File contents are "old", "new" (the text upstream serves), "partial"    *)
(* (a write that failed midway) or "none" (no such file).                   *)
MaxSelfFaults == 1    \* faults injected into one check_and_update call

restOfWorld == <<mainIdleVars, netIdleVars, cacheAux, matcherAux, validateAux>>

SelfInit ==
    /\ MainIdle
    /\ NetIdle
    /\ CacheIdle
    /\ MatcherIdle
    /\ ValidateIdle
    /\ scripts \in [Targets -> {"old", "new", "none"}]
    /\ entryScripts = scripts
    /\ tmpScript \in {"none", "old"}
    /\ helperFile = 0
    /\ helper = "none"
    /\ su_pc = "get"
    /\ su_i = 0
    /\ suVisited = {}
    /\ suFailed = {}
    /\ suFaults = 0
    /\ new_content = "none"

(* requests.get(update_script_url) answers 200 *)
SuGet ==
    /\ su_pc = "get"
    /\ new_content' = "new"
    /\ su_i' = 1
    /\ su_pc' = "read"
    /\ UNCHANGED <<scripts, entryScripts, tmpScript, helperFile, helper,
                   suVisited, suFailed, suFaults, restOfWorld>>

(* requests.get raises or answers another status: logged, return *)
SuGetFails ==
    /\ su_pc = "get"
    /\ suFaults < MaxSelfFaults
    /\ suFaults' = suFaults + 1
    /\ su_pc' = "returned"
    /\ UNCHANGED <<scripts, entryScripts, tmpScript, helperFile, helper, su_i,
                   suVisited, suFailed, new_content, restOfWorld>>

(* a failure that stops the whole loop *)
SuNextAfterFailure_Abort(i) == NTargets + 1

(* the except clause inside the loop: log, go on with the next target *)
SuNextAfterFailure(i) == i + 1

(* open(script).read() and the comparison with new_content *)
SuRead ==
    /\ su_pc = "read"
    /\ su_i <= NTargets
    /\ suVisited' = suVisited \cup {su_i}
    /\ IF scripts[su_i] = "none"
       THEN /\ suFailed' = suFailed \cup {su_i}
            /\ su_i' = SuNextAfterFailure(su_i)
            /\ UNCHANGED su_pc
       ELSE IF scripts[su_i] = new_content
       THEN /\ su_i' = su_i + 1
            /\ UNCHANGED <<su_pc, suFailed>>
       ELSE /\ su_pc' = "write_tmp"
            /\ UNCHANGED <<su_i, suFailed>>
    /\ UNCHANGED <<scripts, entryScripts, tmpScript, helperFile, helper,
                   suFaults, new_content, restOfWorld>>

(* the loop is over *)
SuLoopEnd ==
    /\ su_pc = "read"
    /\ su_i > NTargets
    /\ su_pc' = "returned"
    /\ UNCHANGED <<scripts, entryScripts, tmpScript, helperFile, helper, su_i,
                   suVisited, suFailed, suFaults, new_content, restOfWorld>>

(* perform_update: write and chmod <tmp>/update_new.py *)
SuWriteTmp ==
    /\ su_pc = "write_tmp"
    /\ tmpScript' = new_content
    /\ su_pc' = "write_helper"
    /\ UNCHANGED <<scripts, entryScripts, helperFile, helper, su_i, suVisited,
                   suFailed, suFaults, new_content, restOfWorld>>

(* perform_update: the write raises; its except clause logs and returns *)
SuWriteTmpFails ==
    /\ su_pc = "write_tmp"
    /\ suFaults < MaxSelfFaults
    /\ suFaults' = suFaults + 1
    /\ tmpScript' \in {tmpScript, "partial"}
    /\ suFailed' = suFailed \cup {su_i}
    /\ su_i' = su_i + 1
    /\ su_pc' = "read"
    /\ UNCHANGED <<scripts, entryScripts, helperFile, helper, suVisited,
                   new_content, restOfWorld>>

(* perform_update: write and chmod <tmp>/replace_update.sh *)
SuWriteHelper ==
    /\ su_pc = "write_helper"
    /\ helperFile' = su_i
    /\ su_pc' = "launch"
    /\ UNCHANGED <<scripts, entryScripts, tmpScript, helper, su_i, suVisited,
                   suFailed, suFaults, new_content, restOfWorld>>

(* call([replace_script_path, "&"], shell=True): sh -c is given the path   *)
(* as its command and "&" as $0, so the helper runs in the foreground      *)
SuLaunch ==
    /\ su_pc = "launch"
    /\ helper' = "sleeping"
    /\ su_pc' = "wait"
    /\ UNCHANGED <<scripts, entryScripts, tmpScript, helperFile, su_i,
                   suVisited, suFailed, suFaults, new_content, restOfWorld>>

(* the helper: sleep 1; mv update_new.py target; chmod +x target *)
HelperRun ==
    /\ helper = "sleeping"
    /\ helper' = "done"
    /\ IF tmpScript # "none"
       THEN /\ scripts' = [scripts EXCEPT ![helperFile] = tmpScript]
            /\ tmpScript' = "none"
       ELSE UNCHANGED <<scripts, tmpScript>>
    /\ UNCHANGED <<entryScripts, helperFile, su_pc, su_i, suVisited, suFailed,
                   suFaults, new_content, restOfWorld>>

(* call returns when the shell has ended; perform_update logs and returns *)
SuCallReturns ==
    /\ su_pc = "wait"
    /\ helper = "done"
    /\ su_pc' = "log"
    /\ UNCHANGED <<scripts, entryScripts, tmpScript, helperFile, helper, su_i,
                   suVisited, suFailed, suFaults, new_content, restOfWorld>>

(* back in the loop of check_and_update *)
SuNextTarget ==
    /\ su_pc = "log"
    /\ su_i' = su_i + 1
    /\ su_pc' = "read"
    /\ UNCHANGED <<scripts, entryScripts, tmpScript, helperFile, helper,
                   suVisited, suFailed, suFaults, new_content, restOfWorld>>

SelfNext ==
    \/ SuGet
    \/ SuGetFails
    \/ SuRead
    \/ SuLoopEnd
    \/ SuWriteTmp
    \/ SuWriteTmpFails
    \/ SuWriteHelper
    \/ SuLaunch
    \/ HelperRun
    \/ SuCallReturns
    \/ SuNextTarget

SelfSpec == SelfInit /\ [][SelfNext]_vars

(* ================= driver of validate_appimage ========================= *)
(* sizes of the file at the path, and expected sizes: the values the       *)
(* download meets, nothing, and the byte below the floor                   *)
FileSizes == ServedSizes \cup {0, MIN_APPIMAGE_SIZE - 1}
ExpectedSizes == ServedSizes \cup {NoSize, 0, MIN_APPIMAGE_SIZE - 1}

(* the arguments of one call: a path with no file or with a file of some  *)
(* size and mode, and an expected size or none                              *)
ValidateInit ==
    /\ MainIdle
    /\ NetIdle
    /\ CacheIdle
    /\ MatcherIdle
    /\ SelfIdle
    /\ vFile \in {NoFile} \cup {File("r1", n, n, x) : n \in FileSizes, x \in BOOLEAN}
    /\ vExpected \in ExpectedSizes
    /\ vResult = "none"

(* ReleaseManager.validate_appimage(file_path, expected_size) *)
Validate ==
    /\ vResult = "none"
    /\ vResult' = IF validate_appimage(vFile, vExpected) THEN "true" ELSE "false"
    /\ UNCHANGED <<vFile, vExpected>>
    /\ UNCHANGED <<mainIdleVars, netIdleVars, cacheAux, matcherAux, selfAux>>

ValidateNext == Validate

ValidateSpec == ValidateInit /\ [][ValidateNext]_vars

(* ======================== properties =================================== *)
RunEnded == pc \in {"done", "crashed"}
InstallRun == decision = "install"
SymPcs == {"sym_legacy", "sym_check", "sym_create", "sym_refresh"}
InUpdateSymlink == pc \in SymPcs \/ symResult # "none"

(* SymlinkManager's state Current: the link exists with target apprun_path *)
LinkCurrent(l) == l = Link("apprun")
(* the state in which update_symlink has nothing to do *)
NothingToDo(snap) == LinkCurrent(snap.symlink) /\ ~snap.legacy

(* the link, when present, resolves to the launcher of a completely        *)
(* extracted bundle                                                         *)
LinkResolves ==
    IsLink(symlink) =>
        /\ ReadLink(symlink) = "apprun"
        /\ extract.kind = "dir"
        /\ extract.st = "full"

(* C1: whenever the entry-point link exists it resolves to an existing,    *)
(* executable launcher inside the currently extracted bundle directory;    *)
(* stated as preservation: no step of the program takes a state where this *)
(* holds to a state where the link points at a deleted or half-extracted   *)
(* path.                                                                    *)
C1_LinkNeverDangles == [][LinkResolves => LinkResolves']_vars

(* a file that is wholly written and meets the size and mode checks *)
CompleteAndValid(f) ==
    /\ f.kind = "file"
    /\ f.size = f.body
    /\ f.size >= MIN_APPIMAGE_SIZE
    /\ (AssetSize(f.rel) # 0 => f.size = AssetSize(f.rel))
    /\ f.exec

(* C2: at every step of an install run the file at the bundle path is      *)
(* either the file download_and_install found there or the complete        *)
(* content of this run's download, which passed validation.                *)
C2_BundleOldOrValidated ==
    InstallRun =>
        \/ bundle = entry.bundle
        \/ (bundle = downloaded /\ CompleteAndValid(bundle))

C2_Witness ==
    /\ InstallRun
    /\ pc = "ext_rm"
    /\ entry.bundle # NoFile
    /\ bundle # entry.bundle

(* C3: after two consecutive install runs whose downloads succeeded, the   *)
(* entry-point link is Current, the bundle file is the second download and *)
(* no temporary file is left in the install directory.                     *)
C3_TwoInstallsLeaveCurrent ==
    (RunEnded /\ InstallRun /\ dlResult = "true" /\ ~envFault /\ installs >= 1) =>
        /\ LinkCurrent(symlink)
        /\ bundle = downloaded
        /\ TempCount = 0

(* C4: a run that follows a run killed inside the install path, with no    *)
(* fault of the network or the host and no upstream change, ends with the  *)
(* launcher present, the link Current and no temporary file.               *)
C4_RetryAfterInterruptRecovers ==
    (/\ RunEnded
     /\ prev.how = "interrupted"
     /\ prev.decision = "install"
     /\ publishes = prev.pubs
     /\ ~envFault) =>
        /\ LauncherExists(extract)
        /\ LinkCurrent(symlink)
        /\ TempCount = 0

AfterCleanInstall ==
    /\ pc # "idle"
    /\ prev.how = "exited"
    /\ prev.decision = "install"
    /\ prev.ok
    /\ publishes = prev.pubs
    /\ ~envFault

(* C5: the run that follows a successful install, with no upstream change, *)
(* sends one manifest request and no artifact request, moves nothing onto  *)
(* the bundle path, extracts nothing and ends normally on the              *)
(* already-up-to-date branch.                                               *)
C5_NoUpdateAfterInstall ==
    AfterCleanInstall =>
        /\ artifactGets = 0
        /\ manifestGets <= 1
        /\ temp = NoFile
        /\ decision \in {"none", "symlink_only"}
        /\ (decision = "symlink_only" =>
               bundle = symEntry.bundle /\ extract = symEntry.extract)
        /\ (RunEnded => pc = "done" /\ manifestGets = 1
                          /\ decision = "symlink_only")

C5_Witness ==
    /\ AfterCleanInstall
    /\ pc = "done"
    /\ decision = "symlink_only"
    /\ manifestGets = 1

(* the spec's normalisation: drop one leading version-prefix character *)
StripPrefix(s) == IF s # <<>> /\ Head(s) = VersionPrefix THEN Tail(s) ELSE s

(* extraction directory as main's decision saw it *)
ExtractAtDecision == IF InstallRun THEN entry.extract ELSE symEntry.extract

FullInstallDue ==
    \/ current_version = NoVersion
    \/ ~LauncherExists(ExtractAtDecision)
    \/ StripPrefix(current_version) # StripPrefix(TagName(latest_release))

(* C6: main takes the full install exactly when no version is detected,    *)
(* the launcher is missing, or the versions differ after stripping the     *)
(* leading prefix character; otherwise it downloads nothing, extracts      *)
(* nothing and only runs update_symlink.                                    *)
C6_DecisionTable ==
    decision # "none" =>
        /\ InstallRun <=> FullInstallDue
        /\ (~InstallRun =>
               /\ InUpdateSymlink
               /\ artifactGets = 0
               /\ temp = NoFile
               /\ bundle = symEntry.bundle
               /\ extract = symEntry.extract)

C6_Witness ==
    /\ pc = "dl_fetch"
    /\ InstallRun
    /\ current_version = <<"1">>
    /\ TagName(latest_release) = <<"v", "2">>
    /\ LauncherExists(extract)

InstallationAtEntry ==
    /\ bundle = entry.bundle
    /\ extract = entry.extract
    /\ symlink = entry.symlink
    /\ legacy = entry.legacy

(* C7: a download shorter than the 10 MiB floor fails validation; the      *)
(* temporary file is removed, download_and_install ends without extracting *)
(* or touching the link, and the installation it found is unchanged.       *)
C7_SmallDownloadRejected ==
    (InstallRun /\ downloaded # NoFile /\ downloaded.size < MIN_APPIMAGE_SIZE) =>
        /\ InstallationAtEntry
        /\ symResult = "none"
        /\ \/ pc = "dl_validate"
           \/ /\ pc \in {"done", "ended"}
              /\ dlResult = "false"
              /\ temp = NoFile
              /\ TempCount = entry.temps

C7_Witness ==
    /\ InstallRun
    /\ pc = "done"
    /\ downloaded # NoFile
    /\ downloaded.size = 5000000
    /\ entry.bundle # NoFile
    /\ dlResult = "false"

(* C8: whenever download_latest has failed after it created its temporary  *)
(* file, that file is gone and the install directory holds no more         *)
(* temporary files than before the call.                                    *)
C8_TempRemovedOnFailure ==
    dlResult = "false" =>
        /\ temp = NoFile
        /\ TempCount = entry.temps

C8_Witness ==
    /\ dlResult = "false"
    /\ pc = "done"
    /\ downloaded # NoFile
    /\ validate_appimage(downloaded, AssetSize(mgr_release))
    /\ temp = NoFile

(* C9: update_symlink, entered in any state but Current, ends without an   *)
(* error, with the link at symlink_path pointing at apprun_path and no     *)
(* legacy link.                                                             *)
C9_UpdateSymlinkReachesCurrent ==
    (symResult # "none" /\ ~NothingToDo(symEntry)) =>
        /\ symResult = "returned"
        /\ LinkCurrent(symlink)
        /\ ~legacy

(* C10: update_symlink, entered in state Current with no legacy link,      *)
(* changes nothing in the filesystem and does not refresh the shell's      *)
(* command cache.                                                           *)
C10_CurrentIsNoOp ==
    (InUpdateSymlink /\ NothingToDo(symEntry)) =>
        /\ FsSnapshot = symEntry
        /\ refreshed = 0
        /\ symResult # "raised"

C10_Witness ==
    /\ symResult = "returned"
    /\ NothingToDo(symEntry)
    /\ pc = "done"

(* age of the entry the last network answer created, as a call finds it *)
EntryAge == now - fetchLog.bornAt
ACallIsMade == fetchLog'.n = fetchLog.n + 1

(* C11: a fetch_latest_release call made while the entry created by the    *)
(* last network answer is younger than CACHE_DURATION returns that         *)
(* answer's data and sends no request; a call made after the entry is      *)
(* older than CACHE_DURATION sends a request and leaves no expired entry;  *)
(* a hit does not change the time the entry's age is counted from.         *)
C11_CacheWithinTTL ==
    [][ACallIsMade =>
          /\ (fetchLog.bornAt >= 0 /\ EntryAge < CACHE_DURATION) =>
                /\ fetchLog'.kind = "hit"
                /\ fetchLog'.ret = fetchLog.bornData
                /\ latest_release' = fetchLog.bornData
                /\ manifestGets' = manifestGets
                /\ api_cache' = api_cache
          /\ (fetchLog.bornAt >= 0 /\ EntryAge > CACHE_DURATION) =>
                /\ fetchLog'.kind \in {"miss", "raise", "keyerror"}
                /\ manifestGets' = manifestGets + 1
                /\ (api_cache' = NoEntry \/ api_cache'.ts = now)
          /\ fetchLog'.kind = "hit" => fetchLog'.bornAt = fetchLog.bornAt
       ]_vars

(* a miss, then a hit on data upstream no longer serves, then a miss      *)
(* after the entry expired                                                  *)
C11_Witness ==
    /\ fetchLog.n = 3
    /\ fetchLog.kind = "miss"
    /\ fetchLog.bornAt = now
    /\ now > CACHE_DURATION
    /\ manifestGets = 2

(* ----------------------- the asset matcher ----------------------------- *)
FindCalled == found.idx >= 0
Selected == assets[found.idx]

(* tok stands in s as a whole word, whatever the case of s *)
ContainsWord(tok, s) ==
    \E i \in 1..Len(s) :
        /\ i + Len(tok) - 1 <= Len(s)
        /\ \A j \in 1..Len(tok) : LowerChar(s[i + j - 1]) = tok[j]
        /\ (i = 1 \/ ~WordChar(s[i - 1]))
        /\ (i + Len(tok) > Len(s) \/ ~WordChar(s[i + Len(tok)]))
HasWordOf(arch, s) == \E tok \in matches(arch) : ContainsWord(tok, s)
WordArch(s) ==
    IF HasWordOf("X86_64", s) THEN "X86_64"
    ELSE IF HasWordOf("ARM64", s) THEN "ARM64"
    ELSE None

(* the name ends with the bundle suffix / is a side-file of a bundle *)
IsBundleName(name) ==
    /\ Len(name) >= Len(AppImageSuffix)
    /\ \A j \in 1..Len(AppImageSuffix) :
          LowerChar(name[Len(name) - Len(AppImageSuffix) + j]) = AppImageSuffix[j]
IsSideFile(name) ==
    \E i \in 1..Len(name) :
        /\ i + Len(AppImageSuffix) <= Len(name)
        /\ \A j \in 1..Len(AppImageSuffix) : LowerChar(name[i + j - 1]) = AppImageSuffix[j]
        /\ name[i + Len(AppImageSuffix)] = "."
GoodName(name) == IsBundleName(name) /\ ~IsSideFile(name)

Bundle_x86 == <<"n", "v", "i", "m", "-", "l", "i", "n", "u", "x", "-", "x", "8", "6", "_", "6", "4", ".", "a", "p", "p", "i", "m", "a", "g", "e">>
Zsync_x86 == <<"n", "v", "i", "m", "-", "l", "i", "n", "u", "x", "-", "x", "8", "6", "_", "6", "4", ".", "a", "p", "p", "i", "m", "a", "g", "e", ".", "z", "s", "y", "n", "c">>
ScenarioSelectsBundle ==
    (/\ FindCalled
     /\ target = "X86_64"
     /\ assets \in {<<Bundle_x86, Zsync_x86>>, <<Zsync_x86, Bundle_x86>>})
    => (found.idx > 0 /\ Selected = Bundle_x86 /\ found.score = 15)

(* C12 as stated: find_appimage_asset returns an asset whose name ends    *)
(* with .appimage and is no side-file, or none if the list has no such    *)
(* asset.                                                                   *)
C12_SelectsBundleOrNone ==
    FindCalled =>
        IF found.idx = 0
        THEN \A i \in 1..Len(assets) : ~GoodName(assets[i])
        ELSE GoodName(Selected)

(* C12 amended: find_appimage_asset returns an asset whose name ends with *)
(* .appimage and is no side-file, or none if the list has no such asset   *)
(* whose name also holds an architecture token as a whole word; in the    *)
(* scenario the bundle is selected with score 15, the .zsync file ignored. *)
C12_SelectsDetectedBundleOrNone ==
    /\ FindCalled =>
          IF found.idx = 0
          THEN \A i \in 1..Len(assets) :
                  ~(GoodName(assets[i]) /\ WordArch(assets[i]) # None)
          ELSE GoodName(Selected)
    /\ ScenarioSelectsBundle

C12_Witness ==
    /\ FindCalled
    /\ target = "X86_64"
    /\ assets = <<Zsync_x86, Bundle_x86>>
    /\ found = [idx |-> 2, score |-> 15]

(* a list whose only bundle names no architecture: none is returned *)
C12_NoArchWitness ==
    /\ FindCalled
    /\ \E i \in 1..Len(assets) : GoodName(assets[i])
    /\ found.idx = 0

(* C13: when exactly two assets survive the filters, one of the target's  *)
(* architecture and one of another, the one of the target's architecture  *)
(* is returned, in either order and whatever names hold 'linux'.           *)
Survivors == {i \in 1..Len(assets) : GoodName(assets[i]) /\ WordArch(assets[i]) # None}
C13_ArchMatchWins ==
    FindCalled =>
        \A i, j \in Survivors :
            (/\ Survivors = {i, j}
             /\ WordArch(assets[i]) = target
             /\ WordArch(assets[j]) # target)
            => found.idx = i

(* the matching asset comes second and has no 'linux', the other has *)
C13_Witness ==
    /\ FindCalled
    /\ target = "X86_64"
    /\ assets = << <<"n", "v", "i", "m", "-", "l", "i", "n", "u", "x", "-", "a", "r", "m", "6", "4", ".", "a", "p", "p", "i", "m", "a", "g", "e">>,
                  <<"n", "v", "i", "m", "-", "x", "8", "6", "_", "6", "4", ".", "a", "p", "p", "i", "m", "a", "g", "e">> >>
    /\ found = [idx |-> 2, score |-> 10]

(* C14: detect_from_name returns the architecture one of whose tokens     *)
(* stands in the name as a whole word, whatever the case; X86_64 when      *)
(* tokens of both stand in it; none when no token does.                    *)
DetectCalled == detected # NotDetected
C14_DetectFromName == DetectCalled => detected = WordArch(probeName)

(* tokens of both variants, the ARM64 one first in the name *)
C14_Witness ==
    /\ probeName = <<"n", "v", "i", "m", "-", "a", "r", "m", "6", "4", "-", "x", "8", "6", "_", "6", "4", ".", "a", "p", "p", "i", "m", "a", "g", "e">>
    /\ detected = "X86_64"

(* an upper-case token is found, a token inside a longer word is not *)
C14_CaseWitness ==
    /\ probeName \in { <<"n", "v", "i", "m", "-", "A", "R", "M", "6", "4">>, <<"n", "v", "i", "m", "-", "a", "r", "m", "6", "4", "x">>, <<"n", "v", "i", "m", "_", "x", "8", "6", "_", "6", "4">> }

(* ------------------- failures of a run of main -------------------------- *)
(* the process ends on its own, by main returning or by an exception *)
ProcessEnds == pc \in {"ended", "crashed"} /\ pc' = "idle"
(* download_and_install has returned, and what it returned *)
DownloadAndInstallReturned == decision = "install" /\ pc \in {"done", "ended"}
DownloadAndInstallValue == dlResult = "true"

(* C15: once the extraction of a full install has failed, update_symlink   *)
(* is not run and download_and_install does not return True.               *)
C15_FailureAbortsChain ==
    ExtractionFailed =>
        /\ pc \notin SymPcs
        /\ ~(DownloadAndInstallReturned /\ DownloadAndInstallValue)

(* the fetch of the manifest in main raised *)
FetchFailedInMain == decision = "none" /\ envFault /\ latest_release = None

(* C16: a process whose manifest fetch in main failed ends by main         *)
(* returning, after the rest of main with check_and_update has run.        *)
C16_FetchFailureContinues ==
    [][(ProcessEnds /\ FetchFailedInMain) => pc = "ended"]_vars

(* C17: a process whose download_and_install returned False ends with a    *)
(* non-zero exit code.                                                      *)
C17_FailureExitsNonZero ==
    [][(ProcessEnds /\ decision = "install" /\ dlResult = "false")
         => ExitCode # 0]_vars

(* C18: a run that follows a run whose extraction failed, with the same    *)
(* upstream release and no fault of its own, is a full install and ends    *)
(* with a complete extraction and the link Current.                        *)
C18_RetryAfterFailedExtraction ==
    [][(/\ ProcessEnds
        /\ prev.extFailed /\ prev.how = "exited"
        /\ startPubs = prev.pubs /\ publishes = startPubs
        /\ ~envFault)
         => /\ decision = "install"
            /\ extract # NoDir /\ extract.st = "full"
            /\ LinkCurrent(symlink)]_vars

(* ------------------------- the self-updater ----------------------------- *)
Differing == {i \in Targets : entryScripts[i] = "old"}
SelfReturned == su_pc = "returned" /\ new_content # "none"

(* every target that differed holds the fetched text when the call is over *)
TargetsUpdated ==
    (SelfReturned /\ suFaults = 0) =>
        \A i \in Differing : scripts[i] = new_content

(* C19: perform_update returns while the helper it launched is still       *)
(* waiting (the helper is detached and not waited on), and every target    *)
(* that differed ends up holding the fetched text.                          *)
C19_DetachedHelperUpdatesTargets ==
    /\ su_pc = "log" => helper = "sleeping"
    /\ TargetsUpdated

(* C20: when the text was fetched, check_and_update returns after having   *)
(* checked every target, and every target that differed and for which no   *)
(* error was logged holds the fetched text, whatever failed for the others. *)
C20_FailureDoesNotBlockOthers ==
    /\ su_pc \in {"get", "read", "write_tmp", "write_helper", "launch", "wait",
                 "log", "returned"}
    /\ SelfReturned =>
          /\ suVisited = Targets
          /\ \A i \in Differing \ suFailed : scripts[i] = new_content

(* the first target cannot be read, the second differed and was updated *)
C20_Witness ==
    /\ SelfReturned
    /\ 1 \in suFailed
    /\ entryScripts[2] = "old"
    /\ scripts[2] = "new"

(* the score of a name for the architecture asked for, from the name alone *)
HasPlatform(name) ==
    \E i \in 1..Len(name) :
        /\ i + Len(PlatformToken) - 1 <= Len(name)
        /\ \A j \in 1..Len(PlatformToken) : LowerChar(name[i + j - 1]) = PlatformToken[j]
NameScore(name) ==
    (IF WordArch(name) = target THEN ArchBonus ELSE 0)
    + (IF HasPlatform(name) THEN PlatformBonus ELSE 0)

(* C21: of the surviving assets find_appimage_asset returns one with the   *)
(* highest score, and of those with the highest score the first in the     *)
(* list.                                                                    *)
C21_HighestScoreFirstSeen ==
    (FindCalled /\ Survivors # {}) =>
        /\ found.idx \in Survivors
        /\ found.score = NameScore(Selected)
        /\ \A j \in Survivors : NameScore(assets[j]) <= found.score
        /\ \A j \in Survivors : j < found.idx => NameScore(assets[j]) < found.score

(* two different assets with the highest score: the first is returned *)
C21_Witness ==
    /\ FindCalled
    /\ target = "X86_64"
    /\ assets = << <<"N", "v", "i", "m", "-", "L", "i", "n", "u", "x", "-", "A", "M", "D", "6", "4", ".", "A", "p", "p", "I", "m", "a", "g", "e">>,
                  Bundle_x86 >>
    /\ found = [idx |-> 1, score |-> ArchBonus + PlatformBonus]

(* C22: find_appimage_asset returns none exactly when no asset survives    *)
(* the filters, and a surviving asset otherwise, also when none is of the  *)
(* architecture asked for.                                                  *)
C22_NoneIffNoSurvivor ==
    FindCalled =>
        /\ (found.idx = 0) <=> (Survivors = {})
        /\ Survivors # {} => found.idx \in Survivors

(* only an ARM64 bundle for target X86_64: it is returned *)
C22_Witness ==
    /\ FindCalled
    /\ target = "X86_64"
    /\ assets = << <<"n", "v", "i", "m", "-", "l", "i", "n", "u", "x", "-", "a", "r", "m", "6", "4", ".", "a", "p", "p", "i", "m", "a", "g", "e">> >>
    /\ found = [idx |-> 1, score |-> PlatformBonus]

(* ----------------------- what the cache holds -------------------------- *)
(* C23: every entry of the release cache holds a payload that parses into  *)
(* a ReleaseInfo; a manifest that lacks a required field is never stored.  *)
C23_CacheHoldsParsedPayloads ==
    api_cache # NoEntry => api_cache.data \in RelIds

(* a call within the TTL of an entry sends a request or returns a release *)
C23_NoFailureFromCache ==
    [][(ACallIsMade /\ CacheFresh) =>
          (manifestGets' = manifestGets + 1 \/ fetchLog'.ret \in RelIds)]_vars

(* a call that ends in the error raised for a non-200 answer *)
NonOkAnswer == ACallIsMade /\ fetchLog'.kind = "raise"

(* C24 as stated: a fetch_latest_release that meets a non-200 answer       *)
(* raises, stores nothing and leaves every cache entry and latest_release  *)
(* as they were.                                                            *)
C24_NonOkLeavesCacheUnchanged ==
    [][NonOkAnswer =>
          /\ fetchLog'.ret = None
          /\ api_cache' = api_cache
          /\ latest_release' = latest_release]_vars

(* C24: a fetch_latest_release that meets a non-200 answer raises, leaves  *)
(* the cache without an entry for the URL (an entry it found was older     *)
(* than CACHE_DURATION and has been deleted by the lookup), and leaves     *)
(* latest_release as it was.                                                *)
C24_NonOkStoresNothing ==
    [][NonOkAnswer =>
          /\ fetchLog'.ret = None
          /\ manifestGets' = manifestGets + 1
          /\ api_cache' = NoEntry
          /\ api_cache # NoEntry => now - api_cache.ts > CACHE_DURATION
          /\ latest_release' = latest_release]_vars

(* a fetch returned a release, its entry expired, the next call met a      *)
(* non-200 answer                                                           *)
C24_Witness ==
    /\ fetchLog.kind = "raise"
    /\ fetchLog.bornAt >= 0
    /\ now - fetchLog.bornAt > CACHE_DURATION
    /\ api_cache = NoEntry
    /\ latest_release = fetchLog.bornData

(* ------------------- one manifest for a whole run ---------------------- *)
(* C25: in a run of main (whose fetch is made at process time 0), while    *)
(* no more than CACHE_DURATION has passed, at most one manifest request    *)
(* has been sent, and the release download_latest works on is the release  *)
(* main decided on, whatever upstream serves by then.                       *)
C25_OneManifestPerRun ==
    now <= CACHE_DURATION =>
        /\ manifestGets <= 1
        /\ mgr_release # None =>
              /\ mgr_release = latest_release
              /\ manifestGets = 1

(* upstream published another release between the two fetches and time    *)
(* has passed, yet the download is of the release main decided on          *)
C25_Witness ==
    /\ InstallRun
    /\ mgr_release # None
    /\ mgr_release = latest_release
    /\ mgr_release # upstream
    /\ now = CACHE_DURATION
    /\ dlResult = "true"


(* ------------------------ validate_appimage ---------------------------- *)
ValidateCalled == vResult # "none"

(* C26: validate_appimage accepts a file exactly when it exists, has at    *)
(* least MIN_APPIMAGE_SIZE bytes, has the expected size whenever one was   *)
(* given, and is executable.                                                *)
C26_AcceptsExactly ==
    ValidateCalled =>
        ((vResult = "true") <=>
            /\ vFile # NoFile
            /\ vFile.size >= MIN_APPIMAGE_SIZE
            /\ vExpected # NoSize => vFile.size = vExpected
            /\ vFile.exec)

(* with an expected size other than 0, or with none, the call accepts     *)
(* exactly under the four conditions                                        *)
ValidateAcceptsUnlessZero ==
    (ValidateCalled /\ vExpected # 0) =>
        ((vResult = "true") <=>
            /\ vFile # NoFile
            /\ vFile.size >= MIN_APPIMAGE_SIZE
            /\ vExpected # NoSize => vFile.size = vExpected
            /\ vFile.exec)

====
